---- MODULE Spec2Model ----
(***************************************************************************)
(* Model of LinkAssetstoMissionRelease.py: the description-tree parser     *)
(* (plain text and ADF), the catalog lookup, the remote-link reconciler    *)
(* and the cursor-paginated issue scanner, run against Jira and Assets as  *)
(* nondeterministic external services.                                     *)
(*                                                                         *)
(* Strings are sequences of symbols.  A symbol is one character (" ",     *)
(* "-", "*", "\n", ...) or a whitespace-free chunk of text ("Displays").   *)
(* JSON values are tagged records, so that a value of the wrong shape can  *)
(* be told from a value of the right one without a type error of TLC.      *)
(***************************************************************************)
EXTENDS Integers, Sequences, FiniteSets, TLC

\* ------------------------------------------------------------------------
\* Python values
\* ------------------------------------------------------------------------

\* The whitespace symbols: what str.strip(), str.rstrip() and \s take.
WS == {" ", "\t", "\n"}

JNull == [k |-> "null"]
JStr(s) == [k |-> "str", s |-> s]
JNum(n) == [k |-> "num", n |-> n]
JList(xs) == [k |-> "list", items |-> xs]
JDict(f) == [k |-> "dict", f |-> f]

IsStr(v) == v.k = "str"
IsDict(v) == v.k = "dict"
IsList(v) == v.k = "list"

\* Python truthiness: None, "", 0, [] and {} are falsy.
Truthy(v) ==
  CASE v.k = "null" -> FALSE
    [] v.k = "str" -> v.s # <<>>
    [] v.k = "num" -> v.n # 0
    [] v.k = "list" -> v.items # <<>>
    [] v.k = "dict" -> DOMAIN v.f # {}

\* key in d, for a dict d.
Has(d, key) == key \in DOMAIN d.f

\* d.get(key) for a dict d: the value, or None.
Get(d, key) == IF key \in DOMAIN d.f THEN d.f[key] ELSE JNull

\* d.get("type") == name
TypeIs(d, name) == Get(d, "type") = JStr(<<name>>)

\* The outcome of a computation that may raise: a value, or an exception.
Ok(v) == [err |-> FALSE, val |-> v]
Err == [err |-> TRUE, val |-> <<>>]

RECURSIVE SetToSeq(_)
SetToSeq(S) ==
  IF S = {} THEN <<>>
  ELSE LET x == CHOOSE y \in S : TRUE IN <<x>> \o SetToSeq(S \ {x})

\* for x in (v or []): the elements the loop visits.  A list gives its items,
\* a string its characters, a dict its keys; a non-zero number is not
\* iterable (TypeError).
Elems(v) ==
  IF ~Truthy(v) THEN Ok(<<>>)
  ELSE CASE v.k = "list" -> Ok(v.items)
         [] v.k = "str" -> Ok([i \in 1..Len(v.s) |-> JStr(<<v.s[i]>>)])
         [] v.k = "dict" -> Ok([i \in 1..Cardinality(DOMAIN v.f) |->
                                  JStr(<<SetToSeq(DOMAIN v.f)[i]>>)])
         [] v.k = "num" -> Err

\* s.lstrip()
RECURSIVE LStrip(_)
LStrip(s) == IF s # <<>> /\ Head(s) \in WS THEN LStrip(Tail(s)) ELSE s

\* s.rstrip()
RECURSIVE RStrip(_)
RStrip(s) ==
  IF s # <<>> /\ s[Len(s)] \in WS THEN RStrip(SubSeq(s, 1, Len(s) - 1)) ELSE s

\* s.strip()
Strip(s) == RStrip(LStrip(s))

\* The outcome of f applied to the value of r, or the exception of r.
Bind(r, F(_)) == IF r.err THEN Err ELSE F(r.val)

\* Both outcomes' sequences, one after the other, or an exception of either.
Cat2(a, b) == IF a.err \/ b.err THEN Err ELSE Ok(a.val \o b.val)

\* "".join(parts): every part must be a str (TypeError otherwise).
RECURSIVE Join(_)
Join(parts) ==
  IF parts = <<>> THEN Ok(<<>>)
  ELSE IF ~IsStr(Head(parts)) THEN Err
  ELSE Cat2(Ok(Head(parts).s), Join(Tail(parts)))

\* ------------------------------------------------------------------------
\* The tree parser: ADF
\* ------------------------------------------------------------------------

\* The loop of _adf_text_from_paragraph over the fragments from index i: the
\* values appended to out.
RECURSIVE TextFrags(_, _)
TextFrags(frags, i) ==
  IF i > Len(frags) THEN Ok(<<>>)
  ELSE IF ~IsDict(frags[i]) THEN Err
  ELSE Cat2(IF TypeIs(frags[i], "text") /\ Has(frags[i], "text")
            THEN Ok(<<Get(frags[i], "text")>>) ELSE Ok(<<>>),
            TextFrags(frags, i + 1))

\* _adf_text_from_paragraph(node): the concatenated, stripped text of a
\* paragraph node; "" for a falsy node or a node of another type.
_adf_text_from_paragraph(node) ==
  IF ~Truthy(node) THEN Ok(<<>>)
  ELSE IF ~IsDict(node) THEN Err
  ELSE IF ~TypeIs(node, "paragraph") THEN Ok(<<>>)
  ELSE Bind(Bind(Bind(Elems(Get(node, "content")),
                      LAMBDA frags : TextFrags(frags, 1)),
                 Join),
            LAMBDA joined : Ok(Strip(joined)))

\* Lines 149-153: the text of the first paragraph child (cat), <<>> when there
\* is none.
RECURSIVE FirstParagraph(_, _)
FirstParagraph(children, i) ==
  IF i > Len(children) THEN Ok(<<>>)
  ELSE IF ~IsDict(children[i]) THEN Err
  ELSE IF TypeIs(children[i], "paragraph")
       THEN _adf_text_from_paragraph(children[i])
       ELSE FirstParagraph(children, i + 1)

\* Lines 165-170: the name of a nested list item: the text of its first
\* paragraph with a non-empty text, else the text last computed ("").
RECURSIVE SubName(_, _)
SubName(subch, i) ==
  IF i > Len(subch) THEN Ok(<<>>)
  ELSE IF ~IsDict(subch[i]) THEN Err
  ELSE IF TypeIs(subch[i], "paragraph")
       THEN Bind(_adf_text_from_paragraph(subch[i]),
                 LAMBDA name : IF name # <<>> THEN Ok(name)
                               ELSE SubName(subch, i + 1))
       ELSE SubName(subch, i + 1)

\* Lines 161-173: the pairs of the items of one nested bulletList, from item i.
RECURSIVE SubItems(_, _, _)
SubItems(cat, items, i) ==
  IF i > Len(items) THEN Ok(<<>>)
  ELSE IF ~IsDict(items[i]) THEN Err
  ELSE IF ~TypeIs(items[i], "listItem") THEN SubItems(cat, items, i + 1)
  ELSE Cat2(Bind(Bind(Elems(Get(items[i], "content")),
                      LAMBDA subch : SubName(subch, 1)),
                 LAMBDA name : Ok(IF name # <<>> THEN <<<<cat, name>>>>
                                  ELSE <<>>)),
            SubItems(cat, items, i + 1))

\* Lines 159-173 leaving the loop after the first nested bulletList.
RECURSIVE NestedLists_First(_, _, _)
NestedLists_First(cat, children, i) ==
  IF i > Len(children) THEN Ok(<<>>)
  ELSE IF ~IsDict(children[i]) THEN Err
  ELSE IF ~TypeIs(children[i], "bulletList")
       THEN NestedLists_First(cat, children, i + 1)
  ELSE Bind(Elems(Get(children[i], "content")),
            LAMBDA items : SubItems(cat, items, 1))

\* Lines 159-173: the pairs of every nested bulletList among the children of
\* one top-level item, from child i.
RECURSIVE NestedLists(_, _, _)
NestedLists(cat, children, i) ==
  IF i > Len(children) THEN Ok(<<>>)
  ELSE IF ~IsDict(children[i]) THEN Err
  ELSE IF ~TypeIs(children[i], "bulletList")
       THEN NestedLists(cat, children, i + 1)
  ELSE Cat2(Bind(Elems(Get(children[i], "content")),
                 LAMBDA items : SubItems(cat, items, 1)),
            NestedLists(cat, children, i + 1))

\* Lines 141-173: the pairs one top-level list item contributes.
ItemPairs(li) ==
  IF ~IsDict(li) THEN Err
  ELSE IF ~TypeIs(li, "listItem") THEN Ok(<<>>)
  ELSE Bind(Elems(Get(li, "content")),
            LAMBDA children :
              IF children = <<>> THEN Ok(<<>>)
              ELSE Bind(FirstParagraph(children, 1),
                        LAMBDA cat : IF cat = <<>> THEN Ok(<<>>)
                                     ELSE NestedLists(cat, children, 1)))

\* Line 140: the loop over the top-level items, from item i.
RECURSIVE ListItems(_, _)
ListItems(items, i) ==
  IF i > Len(items) THEN Ok(<<>>)
  ELSE Cat2(ItemPairs(items[i]), ListItems(items, i + 1))

\* _adf_pairs_from_list returning from inside the loop of line 140: only the
\* first item of the list is read.
_adf_pairs_from_list_First(list_node) ==
  IF ~Truthy(list_node) THEN Ok(<<>>)
  ELSE IF ~IsDict(list_node) THEN Err
  ELSE IF ~TypeIs(list_node, "bulletList") THEN Ok(<<>>)
  ELSE Bind(Elems(Get(list_node, "content")),
            LAMBDA items : IF items = <<>> THEN Ok(<<>>)
                           ELSE ItemPairs(items[1]))

\* _adf_pairs_from_list(list_node): [(Category, Name), ...] of a bulletList.
_adf_pairs_from_list(list_node) ==
  IF ~Truthy(list_node) THEN Ok(<<>>)
  ELSE IF ~IsDict(list_node) THEN Err
  ELSE IF ~TypeIs(list_node, "bulletList") THEN Ok(<<>>)
  ELSE Bind(Elems(Get(list_node, "content")),
            LAMBDA items : ListItems(items, 1))

\* Lines 184-186: the loop of extract_pairs over the document's nodes.
RECURSIVE DocNodes(_, _)
DocNodes(nodes, i) ==
  IF i > Len(nodes) THEN Ok(<<>>)
  ELSE IF ~IsDict(nodes[i]) THEN Err
  ELSE Cat2(IF TypeIs(nodes[i], "bulletList")
            THEN _adf_pairs_from_list(nodes[i]) ELSE Ok(<<>>),
            DocNodes(nodes, i + 1))

\* ------------------------------------------------------------------------
\* The tree parser: plain text
\* ------------------------------------------------------------------------

\* text.splitlines(): the lines between newlines; a trailing newline opens no
\* further line.
RECURSIVE SplitFrom(_, _)
SplitFrom(s, cur) ==
  IF s = <<>> THEN (IF cur = <<>> THEN <<>> ELSE <<cur>>)
  ELSE IF Head(s) = "\n" THEN <<cur>> \o SplitFrom(Tail(s), <<>>)
  ELSE SplitFrom(Tail(s), Append(cur, Head(s)))

SplitLines(s) == SplitFrom(s, <<>>)

NoMatch == [m |-> FALSE, g |-> <<>>]

\* The tail both patterns share, \s+(?P<g>.+?)\s*$, matched against rest: one
\* whitespace or more, then the group: the text up to the trailing whitespace.
\* When only whitespace follows the bullet, \s+ gives its last symbol back to
\* the group.
BulletTail(rest) ==
  IF rest = <<>> \/ Head(rest) \notin WS THEN NoMatch
  ELSE LET r == LStrip(rest) IN
       IF r # <<>> THEN [m |-> TRUE, g |-> RStrip(r)]
       ELSE IF Len(rest) >= 2 THEN [m |-> TRUE, g |-> <<rest[Len(rest)]>>]
       ELSE NoMatch

\* bullet_re.match(line): ^(?:-|\*)\s+(?P<cat>.+?)\s*$
bullet_re(line) ==
  IF line # <<>> /\ Head(line) \in {"-", "*"} THEN BulletTail(Tail(line))
  ELSE NoMatch

\* child_re.match(line): ^\s{2,}(?:-|\*)\s+(?P<name>.+?)\s*$
child_re(line) ==
  LET body == LStrip(line)
      indent == Len(line) - Len(body) IN
  IF indent >= 2 /\ body # <<>> /\ Head(body) \in {"-", "*"}
  THEN BulletTail(Tail(body))
  ELSE NoMatch

\* Lines 192-202: the loop over the lines from line i; current_cat is <<>>
\* while no category line was seen (None).
RECURSIVE TextLines(_, _, _)
TextLines(lines, i, current_cat) ==
  IF i > Len(lines) THEN <<>>
  ELSE LET line == RStrip(lines[i])
           m1 == bullet_re(line)
           m2 == child_re(line) IN
       IF m1.m THEN TextLines(lines, i + 1, Strip(m1.g))
       ELSE IF m2.m /\ current_cat # <<>>
            THEN LET nm == Strip(m2.g) IN
                 (IF nm # <<>> THEN <<<<current_cat, nm>>>> ELSE <<>>)
                   \o TextLines(lines, i + 1, current_cat)
            ELSE TextLines(lines, i + 1, current_cat)

\* The pairs without the repetitions of a pair.
RECURSIVE Unique(_)
Unique(ps) ==
  IF ps = <<>> THEN <<>>
  ELSE LET before == Unique(SubSeq(ps, 1, Len(ps) - 1)) IN
       IF \E i \in 1..Len(before) : before[i] = ps[Len(ps)] THEN before
       ELSE Append(before, ps[Len(ps)])

\* extract_pairs returning each pair once, as if pairs were collected in a
\* set that keeps the order of insertion.
extract_pairs_Dedupe(desc) ==
  IF IsDict(desc)
  THEN Bind(Bind(Elems(Get(desc, "content")), LAMBDA nodes : DocNodes(nodes, 1)),
            LAMBDA ps : Ok(Unique(ps)))
  ELSE LET text == IF IsStr(desc) THEN desc.s ELSE <<>> IN
       Ok(Unique(TextLines(SplitLines(text), 1, <<>>)))

\* extract_pairs with line 199 not testing current_cat: a child line before
\* the first category line is appended with the category None.
extract_pairs_NoGuard(desc) ==
  IF IsDict(desc)
  THEN Bind(Elems(Get(desc, "content")), LAMBDA nodes : DocNodes(nodes, 1))
  ELSE LET text == IF IsStr(desc) THEN desc.s ELSE <<>> IN
       Ok(TextLines(SplitLines(text), 1, <<"None">>))

\* extract_pairs(desc): the (Category, Name) pairs of a description, an ADF
\* dict or a plain string; any other value is read as the empty text.
extract_pairs(desc) ==
  IF IsDict(desc)
  THEN Bind(Elems(Get(desc, "content")), LAMBDA nodes : DocNodes(nodes, 1))
  ELSE LET text == IF IsStr(desc) THEN desc.s ELSE <<>> IN
       Ok(TextLines(SplitLines(text), 1, <<>>))

\* ------------------------------------------------------------------------
\* Configuration and the external world
\* ------------------------------------------------------------------------

JIRA_SITE == "https://cnhpd.atlassian.net"

\* The literals of the local re-check of line 218.
PROJECT == "PREC"
ISSUE_TYPE == "Mission/Release"
EXCLUDED_STATUS == "Validated (Complete)"

\* Line 54 testing for 404 only.
FallbackStatuses_Only404 == {404}

\* The status codes line 54 answers by the POST form of the search.
FallbackStatuses == {404, 405, 410}

\* The status codes the search may answer with, and those the other services
\* may answer with.
SearchStatuses == {200, 201, 404, 405, 410, 500}
Statuses == {200, 201, 500}

\* How many runs of the script a behaviour holds.
MaxRuns == 2

\* How many pages the search result may have.
MaxPages == 2

Keys == {"K1", "K2"}

\* ADF nodes.
AdfText(t) == JDict([type |-> JStr(<<"text">>), text |-> JStr(t)])
AdfParagraph(t) ==
  JDict([type |-> JStr(<<"paragraph">>), content |-> JList(<<AdfText(t)>>)])
AdfItem(children) ==
  JDict([type |-> JStr(<<"listItem">>), content |-> JList(children)])
AdfList(items) ==
  JDict([type |-> JStr(<<"bulletList">>), content |-> JList(items)])
AdfDoc(nodes) ==
  JDict([type |-> JStr(<<"doc">>), version |-> JNum(1), content |-> JList(nodes)])

\* "- Displays\n  - 11100411\n- PCM\n  - 217646"
DescText ==
  JStr(<<"-", " ", "Displays", "\n", " ", " ", "-", " ", "11100411", "\n",
         "-", " ", "PCM", "\n", " ", " ", "-", " ", "217646">>)

\* An ADF document naming Displays / 11100411 twice, and PCM / 217646.
DescAdf ==
  AdfDoc(<<AdfList(<<
    AdfItem(<<AdfParagraph(<<"Displays">>),
              AdfList(<<AdfItem(<<AdfParagraph(<<"11100411">>)>>),
                        AdfItem(<<AdfParagraph(<<" ", "11100411">>)>>)>>)>>),
    AdfItem(<<AdfParagraph(<<"PCM">>),
              AdfList(<<AdfItem(<<AdfParagraph(<<"217646">>)>>)>>)>>)>>)>>)

\* A description without a bullet tree.
DescProse == JStr(<<"Release", " ", "notes", "\n", "-", "none">>)

\* An ADF document whose content holds a node that is not a record.
DescBroken == JDict([type |-> JStr(<<"doc">>), content |-> JList(<<JStr(<<"x">>)>>)])

\* An ADF document whose content is not a list.
DescNotList == JDict([type |-> JStr(<<"doc">>), content |-> JNum(5)])

\* What an issue is on the server: the fields of the search response, the
\* description, and whether the search response carries the description.
Issue(proj, itype, status, desc, inline) ==
  [proj |-> proj, itype |-> itype, status |-> status, desc |-> desc,
   inline |-> inline]

Matching(desc, inline) == Issue(PROJECT, ISSUE_TYPE, "In Progress", desc, inline)

IssueShapes ==
  {Matching(DescText, TRUE), Matching(DescAdf, FALSE), Matching(DescProse, TRUE),
   Matching(JNull, FALSE), Matching(DescBroken, TRUE),
   Matching(DescNotList, TRUE),
   Issue("OTHR", ISSUE_TYPE, "In Progress", DescText, TRUE),
   Issue(PROJECT, "Task", "In Progress", DescText, TRUE),
   Issue(PROJECT, ISSUE_TYPE, EXCLUDED_STATUS, DescText, TRUE)}

\* The issues of the runs that vary the pages: K1 is processed, K2 fails the
\* local re-check.
DefaultIssues ==
  [key \in Keys |-> IF key = "K1" THEN Matching(DescText, TRUE)
                    ELSE Issue(PROJECT, ISSUE_TYPE, EXCLUDED_STATUS, DescAdf, FALSE)]

\* The issues of the runs that vary the issue: K1 takes every shape, K2 is
\* processed after it.
IssueTables ==
  {[key \in Keys |-> IF key = "K1" THEN shape ELSE Matching(DescAdf, FALSE)] :
     shape \in IssueShapes}

\* The issues of the runs that vary the links and the catalog: both issues
\* are processed.
BothProcessed ==
  [key \in Keys |-> IF key = "K1" THEN Matching(DescText, TRUE)
                    ELSE Matching(DescAdf, FALSE)]

\* The pages of a search response: the issues of one page.
PageShapes == {<<>>, <<"K1">>, <<"K2", "K1">>}

RECURSIVE SeqsUpTo(_, _)
SeqsUpTo(S, n) ==
  IF n = 0 THEN {<<>>}
  ELSE LET shorter == SeqsUpTo(S, n - 1) IN
       shorter \cup {Append(q, x) : q \in shorter, x \in S}

Layouts == SeqsUpTo(PageShapes, MaxPages) \ {<<>>}

DefaultLayout == <<<<"K1", "K2">>>>

\* The (category, name) pairs the catalog knows, and what it may answer: the
\* ids of the objectEntries of the response, in the catalog's order.
CatPairs == {<<<<"Displays">>, <<"11100411">>>>, <<<<"PCM">>, <<"217646">>>>}
Answers == {<<>>, <<42>>, <<43, 42>>}

\* Displays / 11100411 is object 42, and PCM / 217646 is not in the catalog
\* or is the first of two objects found.
DefaultCatalog == [p \in CatPairs |-> IF p[1] = <<"Displays">> THEN <<42>> ELSE <<>>]

Catalogs ==
  {DefaultCatalog,
   [p \in CatPairs |-> IF p[1] = <<"Displays">> THEN <<42>> ELSE <<43, 42>>],
   [p \in CatPairs |-> IF p[1] = <<"Displays">> THEN <<>> ELSE <<43, 42>>]}

\* ------------------------------------------------------------------------
\* State
\* ------------------------------------------------------------------------

VARIABLES
  pages,         \* Jira: the search result, a sequence of pages of issue keys
  issue,         \* Jira: key -> the issue's fields and description
  links,         \* Jira: key -> the remote links of the issue, oldest first
  catalog,       \* Assets: (category, name) -> the ids the AQL query returns
  run,           \* how many runs of the script have started
  pc,            \* where the run is: idle, search, post, iter, desc, list,
                 \* pair, create, done, halted (sys.exit(1)), crashed (traceback)
  next_token,    \* enhanced_search: next_token (0 is None)
  page,          \* enhanced_search: page, the response being yielded from
  idx,           \* enhanced_search: the position within page["issues"]
  pairs,         \* main: pairs
  pidx,          \* main: the position of the loop of line 229 within pairs
  existing,      \* main: existing
  pend,          \* main: (title, url_) on its way to create_remote_link
  snap,          \* what list_remote_links returned for the issue being processed
  total_scanned, \* main: total_scanned
  out,           \* the lines printed to stdout by this run
  calls,         \* the requests this run has sent, oldest first
  last,          \* the request answered last and its status code
  yielded,       \* the issue keys enhanced_search has yielded in this run
  prev,          \* how the previous run ended (idle when there was none)
  steady,        \* nothing changed outside between the previous run and this
  changed,       \* something changed outside since the latest run started
  base           \* the links when this run started or, after halted runs with
                 \* nothing changed outside since, when the first of them did

world == <<pages, issue, catalog>>
scanner == <<next_token, page, idx, yielded>>
context == <<pairs, pidx, existing, pend, snap>>
history == <<run, prev, steady, changed, base>>
vars == <<pages, issue, links, catalog, run, pc, next_token, page, idx, pairs,
          pidx, existing, pend, snap, total_scanned, out, calls, last, yielded,
          prev, steady, changed, base>>

\* A remote link as the server holds it; mine marks the links this script
\* created (a ghost field, never read by the script).
Link(title, url, mine) == [title |-> title, url |-> url, mine |-> mine]

\* A request: the operation, the issue it is about, the continuation token of
\* a search and the (title, url) of a link to create.
Request(op, key, token, body) ==
  [op |-> op, key |-> key, token |-> token, body |-> body]

NoPage == [issues |-> <<>>, nextPageToken |-> 0]
NoResponse == [op |-> "none", key |-> "", token |-> 0, status |-> 0]

\* asset_url with the path of the service desk left out.
asset_url_Short(object_id) == <<JIRA_SITE, "/objects/", ToString(object_id)>>

\* asset_url(object_id)
asset_url(object_id) ==
  <<JIRA_SITE, "/jira/servicedesk/assets/objects/", ToString(object_id)>>

\* Line 236: title = f"{cat} - {nm}"
LinkTitle(cat, nm) == cat \o <<" ", "-", " ">> \o nm

\* Links an issue may carry before the first run: none, the link of
\* Displays / 11100411 -> 42 with padding around its title, or a link
\* without a url.
ForeignLinks ==
  {<<>>,
   <<Link(<<" ">> \o LinkTitle(<<"Displays">>, <<"11100411">>) \o <<" ">>,
          asset_url(42), FALSE)>>,
   <<Link(LinkTitle(<<"Displays">>, <<"11100411">>), <<>>, FALSE)>>}

Init ==
  /\ \/ /\ pages \in Layouts
        /\ issue = DefaultIssues
        /\ links = [key \in Keys |-> <<>>]
        /\ catalog = DefaultCatalog
     \/ /\ pages = DefaultLayout
        /\ issue \in IssueTables
        /\ links = [key \in Keys |-> <<>>]
        /\ catalog = DefaultCatalog
     \/ /\ pages = DefaultLayout
        /\ issue = BothProcessed
        /\ links \in {[key \in Keys |-> IF key = "K1" THEN l ELSE <<>>] :
                        l \in ForeignLinks}
        /\ catalog \in Catalogs
  /\ run = 0
  /\ pc = "idle"
  /\ next_token = 0
  /\ page = NoPage
  /\ idx = 1
  /\ pairs = <<>>
  /\ pidx = 1
  /\ existing = {}
  /\ pend = <<>>
  /\ snap = {}
  /\ total_scanned = 0
  /\ out = <<>>
  /\ calls = <<>>
  /\ last = NoResponse
  /\ yielded = <<>>
  /\ prev = "idle"
  /\ steady = FALSE
  /\ changed = FALSE
  /\ base = links

\* ------------------------------------------------------------------------
\* The script
\* ------------------------------------------------------------------------

Ended == {"done", "halted", "crashed"}

\* A request is sent and answered with a status code.
Sent(op, key, token, body, status) ==
  /\ calls' = Append(calls, Request(op, key, token, body))
  /\ last' = [op |-> op, key |-> key, token |-> token, status |-> status]

\* A line of stdout.
Line(kind, key, text) == [kind |-> kind, key |-> key, text |-> text]

\* die printing its message without leaving the process.
die_Warn == pc' = pc

\* die(msg, r): sys.exit(1).
die == pc' = "halted"

\* The script is started: a fresh process, nothing kept from the run before.
StartRun ==
  /\ pc = "idle"
  /\ run < MaxRuns
  /\ run' = run + 1
  /\ steady' = (run >= 1 /\ ~changed)
  /\ changed' = FALSE
  /\ base' = IF run >= 1 /\ ~changed /\ prev = "halted" THEN base ELSE links
  /\ pc' = "search"
  /\ UNCHANGED <<world, links, prev, next_token, page, idx, yielded, context,
                 total_scanned, out, calls, last>>

\* The process is gone, and its memory and output with it; what it did to the
\* issues stays.
Exit ==
  /\ pc \in Ended
  /\ run < MaxRuns
  /\ prev' = pc
  /\ pc' = "idle"
  /\ next_token' = 0
  /\ page' = NoPage
  /\ idx' = 1
  /\ pairs' = <<>>
  /\ pidx' = 1
  /\ existing' = {}
  /\ pend' = <<>>
  /\ snap' = {}
  /\ total_scanned' = 0
  /\ out' = <<>>
  /\ calls' = <<>>
  /\ last' = NoResponse
  /\ yielded' = <<>>
  /\ steady' = FALSE
  /\ UNCHANGED <<world, links, run, changed, base>>

\* What the search service answers for a continuation token: the page, and
\* the token of the page after it unless it is the last.
ServerPage(token) ==
  LET i == IF token = 0 THEN 1 ELSE token IN
  [issues |-> pages[i],
   nextPageToken |-> IF i < Len(pages) THEN i + 1 ELSE 0]

\* Lines 56-58: the response r that decides the page.
PageResponse(status) ==
  IF status # 200
  THEN die /\ UNCHANGED <<page, idx>>
  ELSE page' = ServerPage(next_token) /\ idx' = 1 /\ pc' = "iter"

\* enhanced_search, lines 53-58: the GET form of the page request.
SearchGet(status) ==
  /\ pc = "search"
  /\ Sent("search_get", "", next_token, <<>>, status)
  /\ IF status \in FallbackStatuses
     THEN pc' = "post" /\ UNCHANGED <<page, idx>>
     ELSE PageResponse(status)
  /\ UNCHANGED <<world, links, history, next_token, yielded, context,
                 total_scanned, out>>

\* enhanced_search, lines 55-58: the POST form, after a GET answered by one
\* of the fallback statuses.
SearchPost(status) ==
  /\ pc = "post"
  /\ Sent("search_post", "", next_token, <<>>, status)
  /\ PageResponse(status)
  /\ UNCHANGED <<world, links, history, next_token, yielded, context,
                 total_scanned, out>>

\* Line 218 with "and" for "or": an issue is skipped only when all three
\* fields are off.
Recheck_And(fields) ==
  ~(/\ fields.proj # PROJECT
    /\ fields.itype # ISSUE_TYPE
    /\ fields.status = EXCLUDED_STATUS)

\* Line 218: the local re-check of an issue's fields.
Recheck(fields) ==
  /\ fields.proj = PROJECT
  /\ fields.itype = ISSUE_TYPE
  /\ fields.status # EXCLUDED_STATUS

\* Lines 224-226 left out: an issue without pairs is processed like another.
Parsed_NoSkip(key, r) ==
  IF r.err
  THEN pc' = "crashed" /\ UNCHANGED <<pairs, idx, out>>
  ELSE /\ pairs' = r.val
       /\ pc' = "list"
       /\ UNCHANGED <<idx, out>>

\* Lines 222-226: the description is parsed; an issue without pairs is
\* skipped.  An exception of extract_pairs ends the run with a traceback.
Parsed(key, r) ==
  IF r.err
  THEN pc' = "crashed" /\ UNCHANGED <<pairs, idx, out>>
  ELSE IF r.val = <<>>
  THEN /\ out' = Append(out, Line("no asset tree", key, <<>>))
       /\ pairs' = r.val
       /\ idx' = idx + 1
       /\ pc' = "iter"
  ELSE /\ pairs' = r.val
       /\ pc' = "list"
       /\ UNCHANGED <<idx, out>>

Process(key, desc) == Parsed(key, extract_pairs(desc))

\* Lines 59-60 and 210-226: the generator yields the next issue of the page
\* and main takes it up to its first external call.
YieldIssue ==
  /\ pc = "iter"
  /\ idx <= Len(page.issues)
  /\ LET key == page.issues[idx]
         fields == issue[key]
         desc == IF fields.inline THEN fields.desc ELSE JNull IN
     /\ yielded' = Append(yielded, key)
     /\ IF ~Recheck(fields)
        THEN idx' = idx + 1 /\ UNCHANGED <<pc, pairs, out>>
        ELSE IF Truthy(desc)
        THEN Process(key, desc)
        ELSE pc' = "desc" /\ UNCHANGED <<pairs, idx, out>>
  /\ UNCHANGED <<world, links, history, next_token, page, pidx, existing,
                 pend, snap, total_scanned, calls, last>>

\* The generator ending after its first page.
TokenAfter_None(pg) == 0

\* The generator ending at a page without issues, whatever its token.
TokenAfter_StopOnEmpty(pg) ==
  IF pg.issues = <<>> THEN 0 ELSE pg.nextPageToken

\* Line 61: next_token = page.get("nextPageToken")
TokenAfter(pg) == pg.nextPageToken

\* Lines 61-63 and 249: the page is exhausted; the next page is asked for, or
\* the generator ends and main prints the summary.
EndPage ==
  /\ pc = "iter"
  /\ idx > Len(page.issues)
  /\ next_token' = TokenAfter(page)
  /\ IF next_token' = 0
     THEN /\ pc' = "done"
          /\ out' = Append(out, Line("Done. Issues scanned", "",
                                     <<ToString(total_scanned)>>))
     ELSE pc' = "search" /\ UNCHANGED out
  /\ UNCHANGED <<world, links, history, page, idx, yielded, context,
                 total_scanned, calls, last>>

\* get_issue_desc(key), called by line 221 when the search response carries no
\* description, and lines 222-226.
GetIssueDesc(status) ==
  /\ pc = "desc"
  /\ LET key == page.issues[idx] IN
     /\ Sent("get_issue_desc", key, 0, <<>>, status)
     /\ IF status # 200
        THEN die /\ UNCHANGED <<pairs, idx, out>>
        ELSE Process(key, IF Truthy(issue[key].desc) THEN issue[key].desc
                          ELSE JStr(<<>>))
  /\ UNCHANGED <<world, links, history, next_token, page, yielded, pidx,
                 existing, pend, snap, total_scanned>>

\* list_remote_links returning from inside its loop: only the first link of
\* the response is kept.
ExistingOf_FirstOnly(ls) ==
  {<<Strip(ls[i].title), Strip(ls[i].url)>> :
     i \in {j \in 1..Len(ls) : j = 1 /\ ls[j].title # <<>> /\ ls[j].url # <<>>}}

\* list_remote_links reading a key the links do not have: nothing is kept.
ExistingOf_WrongKey(ls) == {}

\* Lines 78-86: the (title, url) set of the remote links of a response.
ExistingOf(ls) ==
  {<<Strip(ls[i].title), Strip(ls[i].url)>> :
     i \in {j \in 1..Len(ls) : ls[j].title # <<>> /\ ls[j].url # <<>>}}

\* list_remote_links(key), line 228.
ListRemoteLinks(status) ==
  /\ pc = "list"
  /\ LET key == page.issues[idx] IN
     /\ Sent("list_remote_links", key, 0, <<>>, status)
     /\ IF status # 200
        THEN die /\ UNCHANGED <<existing, snap, pidx>>
        ELSE /\ existing' = ExistingOf(links[key])
             /\ snap' = existing'
             /\ pidx' = 1
             /\ pc' = "pair"
  /\ UNCHANGED <<world, links, history, scanner, pairs, pend, total_scanned,
                 out>>

\* Lines 229 and 246-247: the loop over the pairs moves on; after the last
\* pair the issue is counted and the generator is resumed.
NextPair ==
  IF pidx < Len(pairs)
  THEN pidx' = pidx + 1 /\ pc' = "pair" /\ UNCHANGED <<idx, total_scanned>>
  ELSE /\ pc' = "iter"
       /\ idx' = idx + 1
       /\ total_scanned' = total_scanned + 1
       /\ UNCHANGED pidx

\* Lines 105-107: the first object of the response, <<>> for None.
FirstEntry(objs) == IF objs # <<>> THEN <<objs[1]>> ELSE <<>>

\* What the catalog answers for a pair.
CatalogAnswer(cat, nm) ==
  IF <<cat, nm>> \in DOMAIN catalog THEN catalog[<<cat, nm>>] ELSE <<>>

\* Lines 231-233 taking a miss for a failure of the catalog.
NotFoundStep_Die(key, cat, nm) ==
  die /\ UNCHANGED <<pend, out, pidx, idx, total_scanned>>

\* Lines 231-233 without the print: a miss goes unreported.
NotFoundStep_Silent(key, cat, nm) == NextPair /\ UNCHANGED <<pend, out>>

\* Lines 231-233: no object was found for the pair; the loop goes on.
NotFoundStep(key, cat, nm) ==
  /\ out' = Append(out, Line("not found", key, cat \o <<" ", "/", " ">> \o nm))
  /\ NextPair
  /\ UNCHANGED pend

\* Line 238 comparing the titles only.
AlreadyLinked_ByTitle(ex, link) == \E e \in ex : e[1] = link[1]

\* Line 238: (title, url_) in existing
AlreadyLinked(ex, link) == link \in ex

\* aql_lookup(cat, nm) and lines 230-240.
AqlLookup(status) ==
  /\ pc = "pair"
  /\ LET key == page.issues[idx]
         cat == pairs[pidx][1]
         nm == pairs[pidx][2]
         obj == FirstEntry(CatalogAnswer(cat, nm))
         title == LinkTitle(cat, nm) IN
     /\ Sent("aql_lookup", key, 0, <<>>, status)
     /\ IF status # 200
        THEN die /\ UNCHANGED <<pend, out, pidx, idx, total_scanned>>
        ELSE IF obj = <<>>
        THEN NotFoundStep(key, cat, nm)
        ELSE IF AlreadyLinked(existing, <<title, asset_url(obj[1])>>)
        THEN /\ out' = Append(out, Line("link already exists", key, title))
             /\ NextPair
             /\ UNCHANGED pend
        ELSE /\ pend' = <<title, asset_url(obj[1])>>
             /\ pc' = "create"
             /\ UNCHANGED <<out, pidx, idx, total_scanned>>
  /\ UNCHANGED <<world, links, history, next_token, page, yielded, pairs,
                 existing, snap>>

\* The status codes create_remote_link takes for success.
CreatedStatuses == {200, 201}

\* Line 243 left out: the snapshot is not updated after a creation.
AfterCreate_Forget(ex, link) == ex

\* Line 243: existing.add((title, url_))
AfterCreate(ex, link) == ex \cup {link}

\* create_remote_link(key, title, url_) and lines 243-244.
CreateRemoteLink(status) ==
  /\ pc = "create"
  /\ LET key == page.issues[idx] IN
     /\ Sent("create_remote_link", key, 0, pend, status)
     /\ IF status \notin CreatedStatuses
        THEN /\ die
             /\ UNCHANGED <<links, existing, out, pidx, idx, total_scanned>>
        ELSE /\ links' = [links EXCEPT
                            ![key] = Append(@, Link(pend[1], pend[2], TRUE))]
             /\ existing' = AfterCreate(existing, pend)
             /\ out' = Append(out, Line("linked", key, pend[1]))
             /\ NextPair
  /\ UNCHANGED <<world, history, next_token, page, yielded, pairs, pend,
                 snap>>

\* ------------------------------------------------------------------------
\* The world between two runs
\* ------------------------------------------------------------------------

program == <<pc, next_token, page, idx, pairs, pidx, existing, pend, snap,
             total_scanned, out, calls, last, yielded>>

\* The catalog comes to answer a pair differently.
CatalogChange(p, a) ==
  /\ pc = "idle"
  /\ run >= 1
  /\ run < MaxRuns
  /\ ~changed
  /\ catalog[p] # a
  /\ catalog' = [catalog EXCEPT ![p] = a]
  /\ changed' = TRUE
  /\ UNCHANGED <<pages, issue, links, run, prev, steady, base, program>>

\* Somebody removes a remote link from an issue.
RemoveLink(key, i) ==
  /\ pc = "idle"
  /\ run >= 1
  /\ run < MaxRuns
  /\ ~changed
  /\ i \in 1..Len(links[key])
  /\ links' = [links EXCEPT
                 ![key] = SubSeq(@, 1, i - 1) \o SubSeq(@, i + 1, Len(@))]
  /\ changed' = TRUE
  /\ UNCHANGED <<world, run, prev, steady, base, program>>

Next ==
  \/ StartRun
  \/ Exit
  \/ \E status \in SearchStatuses : SearchGet(status)
  \/ \E status \in SearchStatuses : SearchPost(status)
  \/ YieldIssue
  \/ EndPage
  \/ \E status \in Statuses : GetIssueDesc(status)
  \/ \E status \in Statuses : ListRemoteLinks(status)
  \/ \E status \in Statuses : AqlLookup(status)
  \/ \E status \in Statuses : CreateRemoteLink(status)
  \/ \E p \in CatPairs, a \in Answers : CatalogChange(p, a)
  \/ \E key \in Keys, i \in 1..2 : RemoveLink(key, i)

Spec == Init /\ [][Next]_vars

\* ------------------------------------------------------------------------
\* The parser on its own: extract_pairs applied to a range of descriptions
\* ------------------------------------------------------------------------

\* How many lines a text description has, and how many top-level items the
\* list of an ADF description has.
MaxLines == 3
MaxItems == 2

\* The lines of the text descriptions: category bullets ("- A", "*  B "),
\* child bullets ("  - x", "\t  * y "), a bullet indented by one (" - z"), an
\* empty line, prose, and a child bullet without a name ("  - ").
TextLineShapes ==
  {<<"-", " ", "A">>,
   <<"*", " ", " ", "B", " ">>,
   <<" ", " ", "-", " ", "x">>,
   <<"\t", " ", " ", "*", " ", "y", " ">>,
   <<" ", "-", " ", "z">>,
   <<>>,
   <<"notes">>,
   <<" ", " ", "-", " ">>}

\* "\n".join(lines)
RECURSIVE JoinLines(_)
JoinLines(lines) ==
  IF lines = <<>> THEN <<>>
  ELSE IF Len(lines) = 1 THEN lines[1]
  ELSE lines[1] \o <<"\n">> \o JoinLines(Tail(lines))

TextDescs ==
  {JStr(JoinLines(lines)) : lines \in SeqsUpTo(TextLineShapes, MaxLines)}

\* A list item holding one paragraph, and one holding an empty paragraph
\* before the paragraph of its text.
AdfLeaf(t) == AdfItem(<<AdfParagraph(t)>>)
AdfLeafLate(t) == AdfItem(<<AdfParagraph(<<" ">>), AdfParagraph(t)>>)

\* The top-level items of the ADF descriptions, as the children of a listItem:
\* a category with one nested list (of one name, of two names, of the same
\* name twice, of no item), without a nested list, with two nested lists,
\* with a blank category, with a blank name, with the list before the
\* paragraph, and with a name in the second paragraph of its item.
AdfItemShapes ==
  {<<AdfParagraph(<<"A">>), AdfList(<<AdfLeaf(<<"x">>)>>)>>,
   <<AdfParagraph(<<"B", " ">>), AdfList(<<AdfLeaf(<<"x">>), AdfLeaf(<<" ", "y">>)>>)>>,
   <<AdfParagraph(<<"A">>), AdfList(<<AdfLeaf(<<"x">>), AdfLeaf(<<"x">>)>>)>>,
   <<AdfParagraph(<<"A">>), AdfList(<<>>)>>,
   <<AdfParagraph(<<"A">>)>>,
   <<AdfParagraph(<<"A">>), AdfList(<<AdfLeaf(<<"x">>)>>),
     AdfList(<<AdfLeaf(<<"y">>)>>)>>,
   <<AdfParagraph(<<" ">>), AdfList(<<AdfLeaf(<<"x">>)>>)>>,
   <<AdfParagraph(<<"B">>), AdfList(<<AdfLeaf(<<" ">>)>>)>>,
   <<AdfList(<<AdfLeaf(<<"y">>)>>), AdfParagraph(<<"B">>)>>,
   <<AdfParagraph(<<"B">>), AdfList(<<AdfLeafLate(<<"x">>)>>)>>}

\* An ADF description: a paragraph of prose, then one bulletList.
AdfDescOf(shapes) ==
  AdfDoc(<<AdfParagraph(<<"notes">>),
           AdfList([i \in 1..Len(shapes) |-> AdfItem(shapes[i])])>>)

AdfDescs == {AdfDescOf(shapes) : shapes \in SeqsUpTo(AdfItemShapes, MaxItems)}

\* The descriptions the parser is applied to.
ParseInputs == TextDescs \cup AdfDescs

\* One issue, carrying the description in the search response, is about to
\* be yielded.
ParseInit ==
  /\ pages = <<<<"K1">>>>
  /\ issue \in {[key \in Keys |-> Matching(desc, TRUE)] : desc \in ParseInputs}
  /\ links = [key \in Keys |-> <<>>]
  /\ catalog = DefaultCatalog
  /\ run = 1
  /\ pc = "iter"
  /\ next_token = 0
  /\ page = [issues |-> <<"K1">>, nextPageToken |-> 0]
  /\ idx = 1
  /\ pairs = <<>>
  /\ pidx = 1
  /\ existing = {}
  /\ pend = <<>>
  /\ snap = {}
  /\ total_scanned = 0
  /\ out = <<>>
  /\ calls = <<>>
  /\ last = NoResponse
  /\ yielded = <<>>
  /\ prev = "idle"
  /\ steady = FALSE
  /\ changed = FALSE
  /\ base = links

\* Line 222: pairs = extract_pairs(desc), for the issue yielded.
ParseDescription == YieldIssue /\ yielded = <<>>

ParseSpec == ParseInit /\ [][ParseDescription]_vars

\* ------------------------------------------------------------------------
\* Properties
\* ------------------------------------------------------------------------

IsPrefix(a, b) == Len(a) <= Len(b) /\ a = SubSeq(b, 1, Len(a))

\* The positions of a sequence whose element is about the issue key, and of
\* a given kind or operation.
LinesOf(key, kind) == {i \in 1..Len(out) : out[i].key = key /\ out[i].kind = kind}
CallsOf(key, op) == {i \in 1..Len(calls) : calls[i].key = key /\ calls[i].op = op}
Visits(key) == {i \in 1..Len(yielded) : yielded[i] = key}

\* The issue main is working on.
Current == page.issues[idx]

\* C1 (idempotence across runs): in a run that follows a completed run, with
\* nothing changed outside in between (descriptions, catalog answers, links),
\* no createLink is sent and none is about to be sent, for any issue.
C1_Idempotent ==
  (steady /\ prev = "done") =>
    /\ pc # "create"
    /\ \A i \in 1..Len(calls) : calls[i].op # "create_remote_link"

\* A second run has completed after a completed first one, and found a link
\* the first one had created.
C1_Witness ==
  /\ steady /\ prev = "done" /\ pc = "done"
  /\ \E i \in 1..Len(out) :
       /\ out[i].kind = "link already exists"
       /\ \E j \in 1..Len(links[out[i].key]) :
            /\ links[out[i].key][j].mine
            /\ links[out[i].key][j].title = out[i].text

\* C2 (no duplicates): in every reachable state, on every issue, no two of
\* the links this script created have the same (title, url).
C2_NoDuplicates ==
  \A key \in Keys : \A i, j \in 1..Len(links[key]) :
    (i < j /\ links[key][i].mine /\ links[key][j].mine) =>
      <<links[key][i].title, links[key][i].url>> #
        <<links[key][j].title, links[key][j].url>>

\* The search has returned an issue twice in one run; the first visit created
\* a link and the second visit found it.
C2_Witness ==
  /\ pc = "done"
  /\ \E a, b \in 1..Len(out) :
       /\ a < b
       /\ out[a].kind = "linked"
       /\ out[b].kind = "link already exists"
       /\ out[a].key = out[b].key
       /\ out[a].text = out[b].text
       /\ Cardinality(Visits(out[a].key)) = 2

\* The link the claim derives from a pair and the id of its catalog entry.
C3_Derived(cat, nm, id) ==
  <<cat \o <<" ", "-", " ">> \o nm,
    <<"https://cnhpd.atlassian.net", "/jira/servicedesk/assets/objects/",
      ToString(id)>>>>

\* The links the claim expects for the pairs ps from position i on, with E
\* the links present or created so far.
RECURSIVE C3_Expected(_, _, _)
C3_Expected(E, ps, i) ==
  IF i > Len(ps) THEN <<>>
  ELSE IF ps[i] \notin DOMAIN catalog \/ catalog[ps[i]] = <<>>
  THEN C3_Expected(E, ps, i + 1)
  ELSE IF C3_Derived(ps[i][1], ps[i][2], catalog[ps[i]][1]) \in E
  THEN C3_Expected(E, ps, i + 1)
  ELSE <<C3_Derived(ps[i][1], ps[i][2], catalog[ps[i]][1])>>
         \o C3_Expected(E \cup {C3_Derived(ps[i][1], ps[i][2],
                                           catalog[ps[i]][1])}, ps, i + 1)

\* The (title, url) of the createLink calls sent since the latest link list.
C3_Created ==
  LET lists == {i \in 1..Len(calls) : calls[i].op = "list_remote_links"}
      from == CHOOSE i \in lists : \A j \in lists : j <= i
      sent == {i \in from + 1..Len(calls) : calls[i].op = "create_remote_link"}
  IN [n \in 1..Cardinality(sent) |->
        calls[CHOOSE i \in sent : Cardinality({j \in sent : j <= i}) = n].body]

\* C3 (reconciler result): for one issue with snapshot E (snap) and pairs
\* p_1..p_n, the createLink calls are the derived (title, url) of the pairs
\* that resolve, in pair order, without those in E or created earlier in the
\* batch: while the pairs are being processed the calls sent are those of the
\* pairs processed, a call about to be sent is the next one, and after the
\* last pair the calls are those of all the pairs.
C3_Reconciled ==
  /\ pc = "pair" => C3_Created = C3_Expected(snap, SubSeq(pairs, 1, pidx - 1), 1)
  /\ pc = "create" =>
       Append(C3_Created, pend) = C3_Expected(snap, SubSeq(pairs, 1, pidx), 1)
  /\ (pc \in {"iter", "done"} /\ pairs # <<>>) =>
       C3_Created = C3_Expected(snap, pairs, 1)

\* An issue has been processed to its last pair: one link was in the
\* snapshot, one was created, and the catalog held two objects for a pair.
C3_Witness ==
  /\ pc = "iter"
  /\ pairs # <<>>
  /\ snap # {}
  /\ Len(C3_Created) = 1
  /\ \E i \in 1..Len(pairs) :
       pairs[i] \in DOMAIN catalog /\ Len(catalog[pairs[i]]) = 2

\* The issues of all the pages, in page order then in-page order.
RECURSIVE C4_Flatten(_)
C4_Flatten(ps) == IF ps = <<>> THEN <<>> ELSE Head(ps) \o C4_Flatten(Tail(ps))

\* The continuation tokens of the GET page requests sent, in order.
C4_GetTokens ==
  LET gets == {i \in 1..Len(calls) : calls[i].op = "search_get"} IN
  [n \in 1..Cardinality(gets) |->
     calls[CHOOSE i \in gets : Cardinality({j \in gets : j <= i}) = n].token]

\* The tokens of the chain of pages: none for the first page, then the token
\* each page carries for the next one.
C4_ChainTokens == [n \in 1..Len(pages) |-> IF n = 1 THEN 0 ELSE n]

\* C4 (pagination): against a finite chain of pages the scanner asks for the
\* pages in order, each once (it never asks for more pages than there are),
\* and yields their issues in page order then in-page order, each once; when
\* the run completes, every page was asked for and every issue yielded.
C4_Pagination ==
  /\ IsPrefix(C4_GetTokens, C4_ChainTokens)
  /\ IsPrefix(yielded, C4_Flatten(pages))
  /\ pc = "done" =>
       /\ C4_GetTokens = C4_ChainTokens
       /\ yielded = C4_Flatten(pages)

\* A run has completed over two pages that hold three issues.
C4_Witness ==
  /\ pc = "done"
  /\ Len(pages) = 2
  /\ Len(yielded) >= 3
  /\ Len(C4_GetTokens) = 2

\* C5 as stated (empty-page termination): after a response with zero issues
\* no further page is requested, with or without a next-token, and after a
\* response without a next-token none is requested either.
C5_EmptyPageEnds ==
  (pc \in {"search", "post"} /\ next_token # 0) =>
    (page.issues # <<>> /\ page.nextPageToken # 0)

\* C5 as amended: the next-token alone decides.  A further page is requested
\* only with the token the latest response carried, so a response without a
\* token ends the sequence; the sequence ends only at a response without a
\* token, all of whose issues were yielded, so a response with zero issues
\* and a token does not end it.
C5_TokenDecides ==
  /\ (pc \in {"search", "post"} /\ next_token # 0) =>
       page.nextPageToken = next_token
  /\ pc = "done" =>
       (page.nextPageToken = 0 /\ idx = Len(page.issues) + 1)

\* The page after a page without issues is being requested.
C5_Witness ==
  /\ pc = "search"
  /\ next_token # 0
  /\ page.issues = <<>>
  /\ page.nextPageToken = next_token

\* A success response, for the claims about failures.
C6_Success(status) == status \in 200..299

\* C6 as stated (fail-fast): no request is sent after a non-success response.
C6_FailFast ==
  [][Len(calls') > Len(calls) => (last.op = "none" \/ C6_Success(last.status))]_vars

\* The one response that is not a success and does not halt the run: a GET
\* of the search answered 404, 405 or 410.
C6_Fallback(r) == r.op = "search_get" /\ r.status \in {404, 405, 410}

\* C6 as amended: after a non-success response the run has halted and no
\* request follows it, except that a GET of the search answered 404, 405 or
\* 410 is followed by the POST of the same page request.
C6_FailFastButFallback ==
  /\ []((last.op # "none" /\ ~C6_Success(last.status) /\ ~C6_Fallback(last))
          => pc = "halted")
  /\ [][Len(calls') > Len(calls) =>
          \/ last.op = "none"
          \/ C6_Success(last.status)
          \/ /\ C6_Fallback(last)
             /\ calls'[Len(calls')].op = "search_post"
             /\ calls'[Len(calls')].token = last.token]_vars

\* A run has halted on a failed createLink, after other requests.
C6_Witness ==
  /\ pc = "halted"
  /\ last.op = "create_remote_link"
  /\ last.status = 500
  /\ Len(calls) >= 4

\* The issue the filter is meant to select.
C7_Intended(fields) ==
  /\ fields.proj = "PREC"
  /\ fields.itype = "Mission/Release"
  /\ fields.status # "Validated (Complete)"

\* C7 (local re-check): no request is ever sent for an issue whose project or
\* type is not the intended one or whose status is the excluded one, and the
\* run is never inside the processing of such an issue nor ended by an error
\* at it.
C7_SkippedUntouched ==
  /\ \A i \in 1..Len(calls) :
       calls[i].key \in Keys => C7_Intended(issue[calls[i].key])
  /\ pc \in {"desc", "list", "pair", "create", "crashed"} =>
       C7_Intended(issue[Current])
  /\ (pc = "halted" /\ last.key \in Keys) => C7_Intended(issue[last.key])

\* A run has completed that yielded an issue failing the re-check and then
\* processed the issue after it.
C7_Witness ==
  /\ pc = "done"
  /\ yielded = <<"K1", "K2">>
  /\ ~C7_Intended(issue["K1"])
  /\ CallsOf("K2", "list_remote_links") # {}

\* The catalog has no entry for the pair.
C8_Miss(p) == p \notin DOMAIN catalog \/ catalog[p] = <<>>

\* C8 (resolution miss): when the catalog answers a query with zero results,
\* no link is created for the pair, the run does not halt, a skip is logged
\* and the next pair of the issue, if any, is the one processed next; and in
\* the scenario of the spec (Displays / 11100411 resolves to 42, PCM / 217646
\* is not found, a first run on an issue without links, one visit) a completed
\* run has created exactly the link of the first pair and logged one skip.
C8_MissSkipsPair ==
  /\ []((/\ pc = "done"
         /\ run = 1
         /\ issue["K1"].desc = DescText
         /\ C7_Intended(issue["K1"])
         /\ catalog = DefaultCatalog
         /\ Cardinality(Visits("K1")) = 1
         /\ \A i \in 1..Len(links["K1"]) : links["K1"][i].mine)
        => /\ links["K1"] =
                <<[title |-> <<"Displays", " ", "-", " ", "11100411">>,
                   url |-> <<"https://cnhpd.atlassian.net",
                             "/jira/servicedesk/assets/objects/", "42">>,
                   mine |-> TRUE]>>
           /\ Cardinality(LinesOf("K1", "not found")) = 1)
  /\ [][(pc = "pair" /\ C8_Miss(pairs[pidx]) /\ Len(calls') > Len(calls)
           /\ last'.status = 200)
        => /\ links' = links
           /\ out' = Append(out, [kind |-> "not found", key |-> Current,
                                  text |-> pairs[pidx][1] \o <<" ", "/", " ">>
                                             \o pairs[pidx][2]])
           /\ IF pidx < Len(pairs)
              THEN pc' = "pair" /\ pidx' = pidx + 1
              ELSE pc' = "iter" /\ idx' = idx + 1]_vars

\* After a pair that was not found, the next pair of the issue was resolved
\* and its link created.
C8_Witness ==
  \E a, b \in 1..Len(out) :
    /\ b = a + 1
    /\ out[a].kind = "not found"
    /\ out[b].kind = "linked"
    /\ out[a].key = out[b].key

\* The descriptions, among those of the issues, from which the parser extracts
\* no pairs.
C9_Unparsed ==
  {d \in {shape.desc : shape \in IssueShapes} : extract_pairs(d) = Ok(<<>>)}

\* The parser extracts no pairs from the description of the issue.
C9_NoPairs(fields) == fields.desc \in C9_Unparsed

\* C9 (parse miss): for an issue that passes the re-check and whose
\* description yields no pairs, no link list, catalog query or createLink is
\* ever sent, the run is never inside its reconciliation nor ended by an
\* error at it, every line printed for it is the skip line, at most one per
\* visit, and exactly one per visit when the run completes.
C9_ParseMissSkipsIssue ==
  \A key \in Keys :
    \/ /\ \A i \in 1..Len(calls) :
            calls[i].key = key => calls[i].op = "get_issue_desc"
       /\ \A i \in 1..Len(out) :
            out[i].key = key => out[i].kind = "no asset tree"
       /\ Cardinality(LinesOf(key, "no asset tree")) <= Cardinality(Visits(key))
       /\ pc = "done" =>
            Cardinality(LinesOf(key, "no asset tree")) = Cardinality(Visits(key))
       /\ pc \in {"list", "pair", "create", "crashed"} => Current # key
    \/ ~(C7_Intended(issue[key]) /\ C9_NoPairs(issue[key]))

\* A run has completed that skipped an issue without pairs, whose description
\* it had to read, and then processed the issue after it.
C9_Witness ==
  /\ pc = "done"
  /\ yielded = <<"K1", "K2">>
  /\ C7_Intended(issue["K1"])
  /\ issue["K1"].desc = JNull
  /\ LinesOf("K1", "no asset tree") # {}
  /\ CallsOf("K1", "get_issue_desc") # {}
  /\ LinesOf("K2", "linked") # {}

\* C10 (soft-fail parsing): parse returns a sequence for every description
\* value and never ends in an error: no run ends with an exception of
\* extract_pairs.
C10_ParseNeverRaises == pc # "crashed"

\* ------------------------------------------------------------------------
\* Properties of the parser
\* ------------------------------------------------------------------------

\* The description the parser was applied to, once it was.
ParsedDesc == issue["K1"].desc
HasParsed == yielded = <<"K1">>

\* The children of a node that are of a type, in order.
ChildrenOf(node, type) ==
  SelectSeq(Get(node, "content").items, LAMBDA ch : TypeIs(ch, type))

\* The text of a paragraph of one text fragment, without the whitespace
\* around it.
ParagraphText(par) == Strip(Get(Get(par, "content").items[1], "text").s)

\* The category an item names: the text of its first paragraph.
CategoryOf(item) ==
  LET pars == ChildrenOf(item, "paragraph") IN
  IF pars = <<>> THEN <<>> ELSE ParagraphText(pars[1])

\* The name a nested item gives: the text of its first paragraph that has
\* one.
NameOf(sub) ==
  LET named == SelectSeq(ChildrenOf(sub, "paragraph"),
                         LAMBDA par : ParagraphText(par) # <<>>) IN
  IF named = <<>> THEN <<>> ELSE ParagraphText(named[1])

\* The top-level list items of a document, over all its lists, in order.
RECURSIVE ItemsFrom(_, _)
ItemsFrom(lists, i) ==
  IF i > Len(lists) THEN <<>>
  ELSE ChildrenOf(lists[i], "listItem") \o ItemsFrom(lists, i + 1)

TopItems(doc) == ItemsFrom(ChildrenOf(doc, "bulletList"), 1)

\* The items of the only nested list of an item.
OnlyList(item) == ChildrenOf(ChildrenOf(item, "bulletList")[1], "listItem")

\* Every top-level item has exactly one nested list.
C11_OneListEach(doc) ==
  \A i \in 1..Len(TopItems(doc)) :
    Len(ChildrenOf(TopItems(doc)[i], "bulletList")) = 1

\* The sum of the k_i from item i on.
RECURSIVE C11_Sum(_, _)
C11_Sum(items, i) ==
  IF i > Len(items) THEN 0
  ELSE Len(OnlyList(items[i])) + C11_Sum(items, i + 1)

\* The pairs in document order from item i on: for each item, its category
\* with the name of each entry of its nested list.
RECURSIVE C11_InOrder(_, _)
C11_InOrder(items, i) ==
  IF i > Len(items) THEN <<>>
  ELSE [j \in 1..Len(OnlyList(items[i])) |->
          <<CategoryOf(items[i]), NameOf(OnlyList(items[i])[j])>>]
       \o C11_InOrder(items, i + 1)

\* Every item has a category text and every entry of its nested list a name.
C11_AllNamed(doc) ==
  \A i \in 1..Len(TopItems(doc)) :
    /\ CategoryOf(TopItems(doc)[i]) # <<>>
    /\ \A j \in 1..Len(OnlyList(TopItems(doc)[i])) :
         NameOf(OnlyList(TopItems(doc)[i])[j]) # <<>>

\* C11 as stated (structured-document pair count): for a document whose
\* top-level items have exactly one nested list each, of k_i items, parse
\* returns exactly the sum of the k_i pairs.
C11_PairCount ==
  (HasParsed /\ IsDict(ParsedDesc) /\ C11_OneListEach(ParsedDesc)) =>
    (pc # "crashed" /\ Len(pairs) = C11_Sum(TopItems(ParsedDesc), 1))

\* C11 as amended: for a document whose top-level items each have a category
\* text and exactly one nested list, of k_i entries that each have a name,
\* parse returns exactly the sum of the k_i pairs, in document order: items in
\* order, and within an item its nested entries in order.
C11_PairCountOfNamed ==
  (/\ HasParsed
   /\ IsDict(ParsedDesc)
   /\ C11_OneListEach(ParsedDesc)
   /\ C11_AllNamed(ParsedDesc)) =>
    /\ pc # "crashed"
    /\ Len(pairs) = C11_Sum(TopItems(ParsedDesc), 1)
    /\ pairs = C11_InOrder(TopItems(ParsedDesc), 1)

\* A document of two items, with nested lists of two entries and of one, was
\* parsed into three pairs.
C11_Witness ==
  /\ HasParsed
  /\ IsDict(ParsedDesc)
  /\ C11_OneListEach(ParsedDesc)
  /\ C11_AllNamed(ParsedDesc)
  /\ Len(TopItems(ParsedDesc)) = 2
  /\ Len(OnlyList(TopItems(ParsedDesc)[1])) = 2
  /\ Len(OnlyList(TopItems(ParsedDesc)[2])) = 1
  /\ Len(pairs) = 3
  /\ pairs[1][1] # pairs[3][1]

\* The category-bullet lines (a bullet at indentation zero, then text) and the
\* child-bullet lines (a bullet at an indentation of two or more) among the
\* lines of the text descriptions.
CategoryLines == {<<"-", " ", "A">>, <<"*", " ", " ", "B", " ">>}
ChildLines ==
  {<<" ", " ", "-", " ", "x">>, <<"\t", " ", " ", "*", " ", "y", " ">>,
   <<" ", " ", "-", " ">>}

\* The lines of the text description that was parsed.
ParsedLines == SplitLines(ParsedDesc.s)

\* The position of the first category-bullet line, past the end when there is
\* none.
FirstCategory(lines) ==
  LET at == {i \in 1..Len(lines) : lines[i] \in CategoryLines} IN
  IF at = {} THEN Len(lines) + 1 ELSE CHOOSE i \in at : \A j \in at : i <= j

\* The lines without the child-bullet lines that come before the first
\* category-bullet line.
C12_WithoutOrphans(lines) ==
  SelectSeq(SubSeq(lines, 1, FirstCategory(lines) - 1),
            LAMBDA line : line \notin ChildLines)
    \o SubSeq(lines, FirstCategory(lines), Len(lines))

\* C12 (plain-text orphan child): the child-bullet lines before the first
\* category-bullet line contribute no pair and change nothing of what the
\* later lines contribute: the pairs are those of the text without them, there
\* are at most as many as child-bullet lines after the first category-bullet
\* line, and none when there is no category-bullet line.
C12_OrphanChildDropped ==
  (HasParsed /\ IsStr(ParsedDesc)) =>
    /\ pc # "crashed"
    /\ Ok(pairs) = extract_pairs(JStr(JoinLines(C12_WithoutOrphans(ParsedLines))))
    /\ Len(pairs) <=
         Cardinality({i \in FirstCategory(ParsedLines)..Len(ParsedLines) :
                        ParsedLines[i] \in ChildLines})

\* A text whose first line is a child bullet, followed by a category and a
\* child of it, was parsed into one pair.
C12_Witness ==
  /\ HasParsed
  /\ IsStr(ParsedDesc)
  /\ Len(ParsedLines) = 3
  /\ ParsedLines[1] \in ChildLines
  /\ ParsedLines[2] \in CategoryLines
  /\ ParsedLines[3] \in ChildLines
  /\ Len(pairs) = 1

\* The category a category-bullet line names and the name a child-bullet line
\* gives (none for the child bullet without a name).
CategoryTextOf(line) == IF line = <<"-", " ", "A">> THEN <<"A">> ELSE <<"B">>
ChildNameOf(line) ==
  CASE line = <<" ", " ", "-", " ", "x">> -> <<"x">>
    [] line = <<"\t", " ", " ", "*", " ", "y", " ">> -> <<"y">>
    [] OTHER -> <<>>

\* The pairs of the lines from line i on, in order: one for each child-bullet
\* line with a name, under the category cat of the most recent category-bullet
\* line above it (<<>> when there is none yet).
RECURSIVE C15_TextInOrder(_, _, _)
C15_TextInOrder(lines, i, cat) ==
  IF i > Len(lines) THEN <<>>
  ELSE IF lines[i] \in CategoryLines
  THEN C15_TextInOrder(lines, i + 1, CategoryTextOf(lines[i]))
  ELSE IF lines[i] \in ChildLines /\ ChildNameOf(lines[i]) # <<>> /\ cat # <<>>
  THEN <<<<cat, ChildNameOf(lines[i])>>>> \o C15_TextInOrder(lines, i + 1, cat)
  ELSE C15_TextInOrder(lines, i + 1, cat)

\* The names the entries of a nested list give, in order.
NamesOf(list) ==
  SelectSeq([j \in 1..Len(ChildrenOf(list, "listItem")) |->
               NameOf(ChildrenOf(list, "listItem")[j])],
            LAMBDA name : name # <<>>)

\* The pairs of the nested lists of an item from list i on, under cat.
RECURSIVE C15_OfLists(_, _, _)
C15_OfLists(cat, lists, i) ==
  IF i > Len(lists) THEN <<>>
  ELSE [j \in 1..Len(NamesOf(lists[i])) |-> <<cat, NamesOf(lists[i])[j]>>]
       \o C15_OfLists(cat, lists, i + 1)

\* The pairs of the top-level items from item i on, in document order.
RECURSIVE C15_AdfInOrder(_, _)
C15_AdfInOrder(items, i) ==
  IF i > Len(items) THEN <<>>
  ELSE (IF CategoryOf(items[i]) = <<>> THEN <<>>
        ELSE C15_OfLists(CategoryOf(items[i]),
                         ChildrenOf(items[i], "bulletList"), 1))
       \o C15_AdfInOrder(items, i + 1)

\* C15 (parser order and multiplicity): for both formats the pairs are in
\* document order; in plain text each child-bullet line with a name yields
\* exactly one pair, under the category of the most recent category-bullet
\* line above it; a pair that occurs m times in the source occurs m times in
\* the output.
C15_DocumentOrder ==
  HasParsed =>
    /\ pc # "crashed"
    /\ IsStr(ParsedDesc) => pairs = C15_TextInOrder(ParsedLines, 1, <<>>)
    /\ IsDict(ParsedDesc) => pairs = C15_AdfInOrder(TopItems(ParsedDesc), 1)

\* A text with the same child bullet twice under a category was parsed into
\* the same pair twice.
C15_Witness ==
  /\ HasParsed
  /\ IsStr(ParsedDesc)
  /\ Len(pairs) = 2
  /\ pairs[1] = pairs[2]

\* The document without its top-level items that have no nested list.
C16_WithoutBare(doc) ==
  AdfDoc(<<AdfList(SelectSeq(TopItems(doc),
                             LAMBDA item : ChildrenOf(item, "bulletList") # <<>>))>>)

\* C16 (item without nested list): a top-level item without a nested list
\* contributes no pair and changes nothing of what the items before and after
\* it contribute: the pairs are those of the document without such items; an
\* item with a category and several nested lists contributes the names of all
\* of them under its category.
C16_BareItemDropped ==
  (HasParsed /\ IsDict(ParsedDesc)) =>
    /\ pc # "crashed"
    /\ Ok(pairs) = extract_pairs(C16_WithoutBare(ParsedDesc))
    /\ \A i \in 1..Len(TopItems(ParsedDesc)) :
         LET item == TopItems(ParsedDesc)[i]
             lists == ChildrenOf(item, "bulletList") IN
         /\ (lists = <<>> /\ Len(TopItems(ParsedDesc)) = 1) => pairs = <<>>
         /\ CategoryOf(item) # <<>> =>
              \A l \in 1..Len(lists) : \A n \in 1..Len(NamesOf(lists[l])) :
                \E k \in 1..Len(pairs) :
                  pairs[k] = <<CategoryOf(item), NamesOf(lists[l])[n]>>

\* A document of an item without a nested list and an item with two nested
\* lists was parsed into the two pairs of the latter.
C16_Witness ==
  /\ HasParsed
  /\ IsDict(ParsedDesc)
  /\ Len(TopItems(ParsedDesc)) = 2
  /\ ChildrenOf(TopItems(ParsedDesc)[1], "bulletList") = <<>>
  /\ Len(ChildrenOf(TopItems(ParsedDesc)[2], "bulletList")) = 2
  /\ Len(pairs) = 2
  /\ pairs[1][2] # pairs[2][2]

\* ------------------------------------------------------------------------
\* Properties of the output
\* ------------------------------------------------------------------------

\* C13 (summary count): when a run completes, the count of the final summary
\* is the number of issues the scanner yielded during the run, the issues
\* skipped by the local re-check or by a parse miss included.
C13_SummaryCountsYielded ==
  pc = "done" =>
    out[Len(out)] =
      Line("Done. Issues scanned", "", <<ToString(Len(yielded))>>)

\* The kinds of the line printed for a pair.
PairLineKinds == {"linked", "link already exists", "not found"}

\* The titles of the createLink requests for an issue that were answered by a
\* success, in order: all of them but the one a halted run ended at.
C14_CreatedTitles(key) ==
  LET failed == IF pc = "halted" /\ last.op = "create_remote_link"
                THEN {Len(calls)} ELSE {}
      sent == CallsOf(key, "create_remote_link") \ failed
  IN [n \in 1..Cardinality(sent) |->
        calls[CHOOSE i \in sent : Cardinality({j \in sent : j <= i}) = n].body[1]]

\* The texts of the linked lines of an issue, in order.
C14_LinkedTitles(key) ==
  LET at == LinesOf(key, "linked")
  IN [n \in 1..Cardinality(at) |->
        out[CHOOSE i \in at : Cardinality({j \in at : j <= i}) = n].text]

\* The step ends the processing of the pair at pidx without ending the run.
C14_PairEnds ==
  /\ pc \in {"pair", "create"}
  /\ pc' \in {"pair", "iter"}

\* At every moment, and so at every halt, the creations logged for an issue
\* are the links created on it by the run.
C14_LoggedAreCreated ==
  \A key \in Keys : C14_LinkedTitles(key) = C14_CreatedTitles(key)

\* Every pair whose processing ends yields exactly one line, keyed by the
\* issue and naming the pair: linked when its link was just created, else
\* already exists or not found; no other step prints a line of these kinds,
\* and a link is created only in the step that prints its linked line.
C14_OneLinePerPair ==
  [][/\ C14_PairEnds =>
          /\ Len(out') = Len(out) + 1
          /\ out'[Len(out')].key = Current
          /\ out'[Len(out')].kind \in PairLineKinds
          /\ out'[Len(out')].kind = "linked" <=> pc = "create"
          /\ out'[Len(out')].text =
               IF out'[Len(out')].kind = "not found"
               THEN pairs[pidx][1] \o <<" ", "/", " ">> \o pairs[pidx][2]
               ELSE pairs[pidx][1] \o <<" ", "-", " ">> \o pairs[pidx][2]
     /\ (~C14_PairEnds /\ Len(out') > Len(out)) =>
          out'[Len(out')].kind \notin PairLineKinds
     /\ (pc # "idle" /\ links' # links) =>
          /\ C14_PairEnds
          /\ pc = "create"
          /\ links'[Current] =
               Append(links[Current],
                      Link(out'[Len(out')].text, pend[2], TRUE))]_vars

\* Every issue the scanner yielded that the local re-check skips has a line
\* of output keyed by it.
C14_EverySkipLogged ==
  \A key \in Keys :
    (Visits(key) # {} /\ ~Recheck(issue[key])) =>
      \E i \in 1..Len(out) : out[i].key = key

\* An issue skipped by a parse miss has at most one line per visit, and one
\* per visit when the run completes.
C14_ParseMissLogged ==
  \A key \in Keys :
    /\ Cardinality(LinesOf(key, "no asset tree")) <= Cardinality(Visits(key))
    /\ (pc = "done" /\ Recheck(issue[key]) /\ C9_NoPairs(issue[key])) =>
         Cardinality(LinesOf(key, "no asset tree")) = Cardinality(Visits(key))

\* C14 as stated (progress reporting): every skip, by the local re-check or
\* by a parse miss, yields a line keyed by the issue; every processed pair
\* yields exactly one line, in pair order; the linked line follows the
\* successful createLink before any further request, so that at every halt
\* the creations logged are the links created.
C14_AllReported ==
  /\ [](C14_EverySkipLogged /\ C14_ParseMissLogged /\ C14_LoggedAreCreated)
  /\ C14_OneLinePerPair

\* C14 as amended: an issue skipped by the local re-check yields no line; an
\* issue skipped by a parse miss yields one line per visit; every processed
\* pair yields exactly one line (linked, already exists or not found), in
\* pair order; the linked line is printed in the step of the successful
\* createLink, before any further request, so that the creations logged are
\* at every moment the links created.
C14_ProgressLines ==
  /\ [](/\ C14_LoggedAreCreated
        /\ C14_ParseMissLogged
        /\ \A key \in Keys :
             ~Recheck(issue[key]) => \A i \in 1..Len(out) : out[i].key # key)
  /\ C14_OneLinePerPair

\* A run has halted at a createLink after it logged a creation and a miss.
C14_Witness ==
  /\ pc = "halted"
  /\ last.op = "create_remote_link"
  /\ \E i \in 1..Len(out) : out[i].kind = "linked"
  /\ \E i \in 1..Len(out) : out[i].kind = "not found"
  /\ \E key \in Keys : Visits(key) # {} /\ Len(C14_CreatedTitles(key)) = 1

\* ------------------------------------------------------------------------
\* Properties across runs
\* ------------------------------------------------------------------------

\* What the parser makes of each description an issue may have.
DescPairs ==
  [d \in {shape.desc : shape \in IssueShapes} |-> extract_pairs(d)]

\* The pairs of the issues that a run processes: those that pass the local
\* re-check; none for the others.
PairsOfIssue(key) ==
  IF Recheck(issue[key]) /\ ~DescPairs[issue[key].desc].err
  THEN DescPairs[issue[key].desc].val ELSE <<>>

\* The pair resolves: the catalog answers it by one entry or more.
Resolves(p) == p \in DOMAIN catalog /\ catalog[p] # <<>>

\* A link of this (title, url) is among the links ls, whitespace around the
\* title and the url of a link aside.
C17_Present(ls, link) ==
  \E i \in 1..Len(ls) : Strip(ls[i].title) = link[1] /\ Strip(ls[i].url) = link[2]

\* When a run completes, every pair of every issue it visited that the
\* catalog resolves, now to the id j, has its link with the url of j on the
\* issue, and when that link was not there as the run started, the run has
\* created it.
C17_LinkOfCurrentId ==
  pc = "done" =>
    \A key \in Keys : \A i \in 1..Len(PairsOfIssue(key)) :
      LET p == PairsOfIssue(key)[i] IN
      (Visits(key) # {} /\ Resolves(p)) =>
        LET link == C3_Derived(p[1], p[2], catalog[p][1]) IN
        /\ C17_Present(links[key], link)
        /\ C17_Present(base[key], link)
             \/ \E n \in Len(base[key]) + 1..Len(links[key]) :
                  links[key][n] = Link(link[1], link[2], TRUE)

\* The links that were on an issue when the run started stay, in their
\* order, while nobody else removes one.
C17_LinksStay == \A key \in Keys : ~changed => IsPrefix(base[key], links[key])

\* A step of a run leaves the links of an issue as they are, or adds one at
\* the end.
C17_NeverRemoves ==
  [][pc # "idle" =>
       \A key \in Keys :
         \/ links'[key] = links[key]
         \/ \E link \in {links'[key][Len(links'[key])]} :
              links'[key] = Append(links[key], link)]_vars

\* C17 (catalog id change): a run never removes or replaces a link; when the
\* id the catalog returns for a pair has changed from i to j between two
\* runs, the second run creates a second link with the same title and the
\* url of j, and the link with the url of i stays on the issue.
C17_IdChangeAddsLink ==
  /\ [](C17_LinkOfCurrentId /\ C17_LinksStay)
  /\ C17_NeverRemoves

\* The second run has completed and an issue carries two links of the same
\* title created by the script, the first to one id and the second to another.
C17_Witness ==
  /\ pc = "done"
  /\ run = 2
  /\ \E key \in Keys : \E a, b \in 1..Len(links[key]) :
       /\ a <= Len(base[key])
       /\ b > Len(base[key])
       /\ links[key][a].mine
       /\ links[key][b].mine
       /\ links[key][a].title = links[key][b].title
       /\ links[key][a].url # links[key][b].url

\* The links one uninterrupted run leaves on an issue whose links were base
\* as it started: base, then the links of the resolved pairs that are not
\* among base, each once, in pair order; base alone for an issue the search
\* does not return.
C18_Uninterrupted(key) ==
  IF \A n \in 1..Len(pages) : \A i \in 1..Len(pages[n]) : pages[n][i] # key
  THEN base[key]
  ELSE LET made == C3_Expected(ExistingOf(base[key]), PairsOfIssue(key), 1) IN
       base[key] \o [n \in 1..Len(made) |-> Link(made[n][1], made[n][2], TRUE)]

\* C18 (recovery after a halted run): when a run completes after a run that
\* halted, with the same descriptions, catalog and links in between, every
\* issue has exactly the links one uninterrupted run would have left on it,
\* none created twice.
C18_Recovers ==
  (pc = "done" /\ prev = "halted" /\ steady) =>
    \A key \in Keys : links[key] = C18_Uninterrupted(key)

\* A run has completed after a run that halted between the two links of an
\* issue: it created the second.
C18_Witness ==
  /\ pc = "done"
  /\ prev = "halted"
  /\ steady
  /\ \E key \in Keys :
       /\ Len(links[key]) = Len(base[key]) + 2
       /\ Cardinality(CallsOf(key, "create_remote_link")) = 1

\* ------------------------------------------------------------------------
\* Properties of the search fallback
\* ------------------------------------------------------------------------

\* The page the server holds for a continuation token, and the token it
\* gives for the page after it.
C19_PageAt(token) == pages[IF token = 0 THEN 1 ELSE token]
C19_TokenAfter(token) ==
  IF (IF token = 0 THEN 1 ELSE token) < Len(pages)
  THEN (IF token = 0 THEN 1 ELSE token) + 1 ELSE 0

\* After a GET answered 404, 405 or 410 the POST of the same page is about to
\* be sent; every POST sent follows the GET of the same continuation token,
\* and so no POST follows a POST.
C19_PostFollowsGet ==
  /\ (last.op = "search_get" /\ last.status \in {404, 405, 410}) =>
       (pc = "post" /\ next_token = last.token)
  /\ \A i \in 1..Len(calls) :
       calls[i].op = "search_post" =>
         /\ i > 1
         /\ calls[i - 1].op = "search_get"
         /\ calls[i - 1].token = calls[i].token

\* The response of the POST decides: any status but 200 halts the run, and
\* 200 gives the issues of the page and the token of the next.
C19_PostDecides ==
  last.op = "search_post" =>
    IF last.status # 200 THEN pc = "halted"
    ELSE /\ pc \notin {"halted", "post"}
         /\ page.issues = C19_PageAt(last.token)
         /\ page.nextPageToken = C19_TokenAfter(last.token)

\* The GET answered by a fallback status changes nothing of the scan, and the
\* POST is sent only right after such a GET; every page is first asked for by
\* GET.
C19_FallbackSteps ==
  [][/\ (Len(calls') > Len(calls) /\ calls'[Len(calls')].op = "search_post") =>
          /\ last.op = "search_get"
          /\ last.status \in {404, 405, 410}
          /\ calls'[Len(calls')].token = last.token
     /\ (Len(calls') > Len(calls) /\ last'.op = "search_get"
           /\ last'.status \in {404, 405, 410}) =>
          /\ page' = page
          /\ idx' = idx
          /\ next_token' = next_token
          /\ yielded' = yielded
     /\ (next_token' # next_token /\ next_token' # 0) => pc' = "search"
     /\ (pc' = "post" /\ pc # "post") =>
          (pc = "search" /\ last'.op = "search_get")]_vars

\* C19 (search fallback keeps the cursor): a GET of a page answered 404, 405
\* or 410 is followed by one POST of the same page with the same continuation
\* token; the response of the POST alone decides the issues of the page, the
\* next token and whether the run halts; no page is skipped or yielded twice,
\* and every later page is asked for by GET first.
C19_FallbackKeepsCursor ==
  /\ [](/\ C19_PostFollowsGet
        /\ C19_PostDecides
        /\ IsPrefix(yielded, C4_Flatten(pages))
        /\ pc = "done" => yielded = C4_Flatten(pages))
  /\ C19_FallbackSteps

\* A run has completed over two pages, each asked for by GET and then by
\* POST.
C19_Witness ==
  /\ pc = "done"
  /\ Len(pages) = 2
  /\ Len(calls) >= 4
  /\ calls[1].op = "search_get"
  /\ calls[2].op = "search_post"
  /\ \E i \in 3..Len(calls) - 1 :
       /\ calls[i].op = "search_get"
       /\ calls[i].token = 2
       /\ calls[i + 1].op = "search_post"
       /\ calls[i + 1].token = 2
  /\ Len(yielded) >= 2

====
